---- MODULE Spec2Model ----
(***************************************************************************)
(* Model of src/main.js: the scroll-reveal engine (initScrollReveals: an   *)
(* IntersectionObserver plus a scroll/requestAnimationFrame fallback) and  *)
(* the scroll-linked ticker (initScrollLinked: --scroll-y and the hero     *)
(* parallax/fade).  The browser is single-threaded: every action below is  *)
(* one callback run to completion.                                         *)
(***************************************************************************)
EXTENDS Integers, Sequences, FiniteSets, TLC

(* ---------------------------- bounds ---------------------------------- *)
\* largest number of .reveal elements on a page
NumTargets == 2
\* scroll positions the user can reach: 0, ScrollStep, ..., MaxScrollSteps*ScrollStep
MaxScrollSteps == 3
ScrollStep == 225
\* clicks on the start button a session may see
MaxStarts == 2
\* IntersectionObserver entries that may be queued before the callback is notified
MaxQueued == 2
\* scroll events dispatched to the ticker between two of its frame callbacks
MaxBurst == 2

(* ------------------------ environment / layout ------------------------ *)
\* window.innerHeight, in px
innerHeight == 500
\* rootMargin: '50px 0px -60px 0px'
RootMarginTop == 50
RootMarginBottom == 60

Targets == 1..NumTargets
ScrollPositions == {i * ScrollStep : i \in 0..MaxScrollSteps}

\* document layout of the .reveal elements (px from the top of the document)
TargetTop(t) == 460 + (t - 1) * 180
TargetBottom(t) == TargetTop(t) + 20

\* el.getBoundingClientRect() when the page is scrolled to y
getBoundingClientRect(t, y) == [top |-> TargetTop(t) - y, bottom |-> TargetBottom(t) - y]

Max(a, b) == IF a >= b THEN a ELSE b

VARIABLES
    pc,                   \* "load" before init() has run, "ready" after
    prefersReducedMotion, \* matchMedia('(prefers-reduced-motion: reduce)').matches
    hasObserver,          \* 'IntersectionObserver' in window
    revealElements,       \* document.querySelectorAll('.reveal')
    heroContent,          \* TRUE iff #hero .hero__content exists
    scrollY,              \* window.scrollY
    visible,              \* visible[t]: el.classList.contains('visible')
    observed,             \* targets revealObserver currently observes
    ioPrev,               \* per observed target, the observer's last computed isIntersecting
    ioQueue,              \* entries queued by the observer, not yet delivered
    pending,              \* the fallback's pending array
    fallbackTicking,
    scrollListeners,      \* handlers attached to window 'scroll'
    rafQueue,             \* callbacks passed to requestAnimationFrame, not yet run
    ticking,
    cssScrollY,           \* --scroll-y on :root: <<>> while unset, else <<value>>
    heroTransform,        \* heroContent.style.transform: <<>> or <<translateY * 50>>
    heroOpacity,          \* heroContent.style.opacity: <<>> or <<opacity * OpacityDen>>
    \* history variables, written only to observe the claims
    revealedBy,           \* revealedBy[t]: the paths that changed visible[t] from FALSE to TRUE, in order
    actsOnResolved,       \* <<path, t>>: path marked/unobserved t while t was already visible
    lastRects,            \* targets whose getBoundingClientRect the latest checkFallback run called
    burst,                \* scroll events the ticker received since its last frame callback
    scheduledAt,          \* <<scrollY when the ticker's queued frame was requested>>, else <<>>
    \* the conversational contact form (initConvoForm)
    formDom,              \* formDom[id]: TRUE iff document.getElementById(id) finds an element
    initError,            \* "none", or the error that ended init() early
    navLinkInit,          \* TRUE once initActiveNavLink has run
    handlers,             \* the form's event listeners that got attached
    formActive,           \* convoForm.classList.contains('active')
    activeStep,           \* the .convo-form__step carrying class 'active', or "none"
    stepsHidden,          \* TRUE once every step got style.display = 'none'
    answers,
    transcript,           \* the bubbles appended to convoChat, in order
    typing,               \* showTyping timers not yet expired, in order of registration
    flagged,              \* fields whose border was set to the warning colour
    outbox,               \* mailto links assigned to window.location.href, in order
    \* history variables of the form
    step,                 \* the session step the code has advanced to
    starts,               \* clicks on the start button so far
    settled,              \* TRUE once the success state was entered with no timer left pending
    lastInput             \* the latest form event handled, with its input values

envVars == <<prefersReducedMotion, hasObserver, revealElements, heroContent>>
revealVars == <<visible, observed, ioPrev, ioQueue, pending, fallbackTicking,
                revealedBy, actsOnResolved, lastRects>>
tickerVars == <<ticking, cssScrollY, heroTransform, heroOpacity, burst, scheduledAt>>
loadVars == <<formDom, initError, navLinkInit, handlers>>
formVars == <<formActive, activeStep, stepsHidden, answers, transcript, typing,
              flagged, outbox, step, starts, settled, lastInput>>
\* everything outside the form's own state
pageVars == <<pc, envVars, scrollY, scrollListeners, rafQueue, revealVars, tickerVars,
              loadVars>>
vars == <<pc, envVars, scrollY, scrollListeners, rafQueue, revealVars, tickerVars,
          loadVars, formVars>>

(* ------------------------------ helpers ------------------------------- *)
\* el.classList.add('visible')
ClassListToggle(vis, t) == [vis EXCEPT ![t] = ~vis[t]]
ClassListAdd(vis, t) == [vis EXCEPT ![t] = TRUE]

\* the observer's intersection test: the target's box against the viewport
\* grown by 50px at the top and shrunk by 60px at the bottom, threshold 0
IsIntersecting(t, y) ==
    LET rect == getBoundingClientRect(t, y)
    IN  /\ rect.top <= innerHeight - RootMarginBottom
        /\ rect.bottom >= 0 - RootMarginTop

\* the fallback's geometry test
InViewport(t, y) ==
    LET rect == getBoundingClientRect(t, y)
    IN  rect.top < innerHeight /\ rect.bottom > 0

\* classList.add('visible'); revealObserver.unobserve(target)   as done by `path`
UnobserveWithoutMarking(st, t, path) ==
    [st EXCEPT !.observed = @ \ {t}, !.ioPrev = [@ EXCEPT ![t] = "none"]]
MarkVisibleAndUnobserve(st, t, path) ==
    LET vis2 == ClassListAdd(st.visible, t)
    IN  [st EXCEPT
            !.visible = vis2,
            !.observed = @ \ {t},
            !.ioPrev = [@ EXCEPT ![t] = "none"],
            !.revealedBy = [@ EXCEPT ![t] =
                                IF ~st.visible[t] /\ vis2[t] /\ Len(@) < 2
                                THEN Append(@, path) ELSE @],
            !.actsOnResolved = IF st.visible[t] THEN @ \cup {<<path, t>>} ELSE @]

\* number of queued frame callbacks that run cb
RECURSIVE Queued(_, _)
Queued(q, cb) ==
    IF q = <<>> THEN 0
    ELSE (IF Head(q).cb = cb THEN 1 ELSE 0) + Queued(Tail(q), cb)

AllVisible == \A t \in revealElements : visible[t]
NormalMode == hasObserver /\ ~prefersReducedMotion

(* ------------------------------ Init ---------------------------------- *)
\* the reveal system and the ticker before init() has run
MotionInit ==
    /\ pc = "load"
    /\ prefersReducedMotion \in BOOLEAN
    /\ hasObserver \in BOOLEAN
    /\ revealElements \in {1..n : n \in 0..NumTargets}
    /\ heroContent \in BOOLEAN
    /\ scrollY \in ScrollPositions
    /\ visible = [t \in Targets |-> FALSE]
    /\ observed = {}
    /\ ioPrev = [t \in Targets |-> "none"]
    /\ ioQueue = <<>>
    /\ pending = <<>>
    /\ fallbackTicking = FALSE
    /\ scrollListeners = {}
    /\ rafQueue = <<>>
    /\ ticking = FALSE
    /\ cssScrollY = <<>>
    /\ heroTransform = <<>>
    /\ heroOpacity = <<>>
    /\ revealedBy = [t \in Targets |-> <<>>]
    /\ actsOnResolved = {}
    /\ lastRects = {}
    /\ burst = 0
    /\ scheduledAt = <<>>

\* ids the conversational form looks up with a null check missing or present
FormElements == {"startConvoBtn", "convoForm", "convoChat", "convoStep2", "convoSend"}
CompleteFormDom == [id \in FormElements |-> TRUE]

\* the page's markup as served: the dialog shell closed, no step shown
MarkupAtLoad ==
    /\ formActive = FALSE
    /\ activeStep = "none"
    /\ stepsHidden = FALSE

\* the form before init() has run: no listener, nothing answered
FormDormant ==
    /\ MarkupAtLoad
    /\ initError = "none"
    /\ navLinkInit = FALSE
    /\ handlers = {}
    /\ answers = [work |-> "", source |-> "", name |-> <<>>, email |-> <<>>, note |-> <<>>]
    /\ transcript = <<>>
    /\ typing = <<>>
    /\ flagged = {}
    /\ outbox = <<>>
    /\ step = "Idle"
    /\ starts = 0
    /\ settled = FALSE
    /\ lastInput = <<>>

\* a page that carries the whole conversational form
Init == MotionInit /\ formDom = CompleteFormDom /\ FormDormant

(* ------------------------------ init() -------------------------------- *)
\* line 78: the reveal engine's degraded mode
RevealDegradedIgnoringMotion == ~hasObserver
RevealDegraded == ~hasObserver \/ prefersReducedMotion

\* line 238: the ticker's disabled mode
TickerDisabledWithoutObserver == prefersReducedMotion \/ ~hasObserver
TickerDisabled == prefersReducedMotion

\* Array.from(revealElements)
ArrayFrom(S) == [i \in 1..Cardinality(S) |-> i]

\* window.addEventListener('scroll', h) / window.removeEventListener('scroll', h)
AddEventListener(ls, h) == ls \cup {h}
RemoveEventListenerNoOp(ls, h) == ls
RemoveEventListener(ls, h) == ls \ {h}

\* requestAnimationFrame(cb); `by` records who asked, for the claims only
RequestAnimationFrame(q, cb, by) == Append(q, [cb |-> cb, by |-> by])

\* lines 478-637 as far as they run at load: the listeners attached before
\* initConvoForm returns or throws, and whether init() gets to initActiveNavLink
ReturnsEarly(dom) == ~dom["startConvoBtn"] \/ ~dom["convoForm"]
AttachedHandlers(dom) ==
    IF ReturnsEarly(dom) THEN {}
    ELSE IF ~dom["convoStep2"] THEN {"start", "next"}
    ELSE IF ~dom["convoSend"] THEN {"start", "next", "pill"}
    ELSE {"start", "next", "pill", "send", "enter"}

\* step2.querySelectorAll (line 557) and sendBtn.addEventListener (line 574)
\* dereference their element without a null check
ThrowsTypeError(dom) ==
    ~ReturnsEarly(dom) /\ (~dom["convoStep2"] \/ ~dom["convoSend"])

\* initConvoForm attaches listeners and calls none of them: whatever step the
\* markup shows stays as it is until a listener runs
ShowsFirstStepAtLoad(shown) == "convoStep1"
ShownAfterInit(shown) == shown

initConvoForm ==
    /\ handlers' = AttachedHandlers(formDom)
    /\ activeStep' = ShownAfterInit(activeStep)
    /\ initError' = IF ThrowsTypeError(formDom) THEN "TypeError" ELSE "none"
    /\ navLinkInit' = ~ThrowsTypeError(formDom)

\* initScrollReveals, then initScrollLinked, then initConvoForm and
\* initActiveNavLink, as init() calls them
init ==
    /\ pc = "load"
    /\ pc' = "ready"
    /\ IF revealElements = {}
       THEN \* line 76: nothing to reveal
            UNCHANGED <<visible, observed, pending, revealedBy>>
       ELSE IF RevealDegraded
       THEN \* lines 79-82: everything visible at once, no observer, no listener
            /\ visible' = [t \in Targets |-> t \in revealElements \/ visible[t]]
            /\ revealedBy' = [t \in Targets |->
                                 IF t \in revealElements /\ ~visible[t]
                                 THEN Append(revealedBy[t], "init") ELSE revealedBy[t]]
            /\ UNCHANGED <<observed, pending>>
       ELSE \* lines 85-107
            /\ observed' = revealElements
            /\ pending' = ArrayFrom(revealElements)
            /\ UNCHANGED <<visible, revealedBy>>
    /\ LET fallbackOn == revealElements # {} /\ ~RevealDegraded
           ls1 == IF fallbackOn
                  THEN AddEventListener(scrollListeners, "onScrollFallback")
                  ELSE scrollListeners
           q1 == IF fallbackOn
                 THEN RequestAnimationFrame(rafQueue, "checkFallback", "init")
                 ELSE rafQueue
       IN  /\ scrollListeners' = IF TickerDisabled THEN ls1
                                 ELSE AddEventListener(ls1, "onScroll")
           /\ rafQueue' = q1
    /\ initConvoForm
    /\ UNCHANGED <<envVars, scrollY, ioPrev, ioQueue, fallbackTicking,
                   actsOnResolved, lastRects, tickerVars, formDom>>
    /\ UNCHANGED <<formActive, stepsHidden, answers, transcript, typing, flagged, outbox,
                   step, starts, settled, lastInput>>

(* --------------------------- scroll events ---------------------------- *)
\* line 130: onScrollFallback schedules a check unless one is flagged
FallbackGuardInverted == fallbackTicking
FallbackMaySchedule == ~fallbackTicking

\* line 245: onScroll returns early while a frame is in flight
TickerAlwaysSchedules == TRUE
TickerMaySchedule == ~ticking

\* The user scrolls to y: window.scrollY changes and the scroll event is
\* dispatched to every attached listener (onScrollFallback, then onScroll).
Scroll(y) ==
    /\ pc = "ready"
    /\ y # scrollY
    /\ "onScroll" \in scrollListeners => burst < MaxBurst
    /\ scrollY' = y
    /\ LET fb == "onScrollFallback" \in scrollListeners /\ FallbackMaySchedule
           tk == "onScroll" \in scrollListeners /\ TickerMaySchedule
           q1 == IF fb THEN RequestAnimationFrame(rafQueue, "checkFallback", "scroll")
                 ELSE rafQueue
       IN  /\ fallbackTicking' = (fallbackTicking \/ fb)
           /\ ticking' = (ticking \/ tk)
           /\ rafQueue' = IF tk THEN RequestAnimationFrame(q1, "tick", "scroll") ELSE q1
    /\ burst' = IF "onScroll" \in scrollListeners THEN burst + 1 ELSE burst
    /\ scheduledAt' = IF "onScroll" \in scrollListeners /\ TickerMaySchedule
                      THEN <<y>> ELSE scheduledAt
    /\ UNCHANGED <<pc, envVars, scrollListeners, visible, observed, ioPrev, ioQueue,
                   pending, revealedBy, actsOnResolved, lastRects,
                   cssScrollY, heroTransform, heroOpacity, loadVars, formVars>>

(* ------------------------- the fallback check ------------------------- *)
\* pending.splice(i, 1)
SpliceNothing(s, i) == s
Splice(s, i) == SubSeq(s, 1, i - 1) \o SubSeq(s, i + 1, Len(s))

\* lines 110-122: for (i = pending.length - 1; i >= 0; i--), 1-based here
RECURSIVE checkFallbackLoop(_, _)
checkFallbackLoop(i, st) ==
    IF i < 1 THEN st
    ELSE LET el == st.pending[i]
         IN  IF st.visible[el]
             THEN checkFallbackLoop(i - 1, [st EXCEPT !.pending = Splice(@, i)])
             ELSE LET st1 == [st EXCEPT !.lastRects = @ \cup {el}]
                  IN  IF InViewport(el, scrollY)
                      THEN checkFallbackLoop(i - 1,
                               [MarkVisibleAndUnobserve(st1, el, "fallback")
                                   EXCEPT !.pending = Splice(@, i)])
                      ELSE checkFallbackLoop(i - 1, st1)

\* a frame callback runs checkFallback
checkFallback ==
    /\ rafQueue # <<>>
    /\ Head(rafQueue).cb = "checkFallback"
    /\ rafQueue' = Tail(rafQueue)
    /\ LET st0 == [pending |-> pending, visible |-> visible, observed |-> observed,
                   ioPrev |-> ioPrev, revealedBy |-> revealedBy,
                   actsOnResolved |-> actsOnResolved, lastRects |-> {}]
           st == checkFallbackLoop(Len(pending), st0)
       IN  /\ pending' = st.pending
           /\ visible' = st.visible
           /\ observed' = st.observed
           /\ ioPrev' = st.ioPrev
           /\ revealedBy' = st.revealedBy
           /\ actsOnResolved' = st.actsOnResolved
           /\ lastRects' = st.lastRects
           /\ fallbackTicking' = FALSE
           /\ scrollListeners' = IF st.pending = <<>>
                                 THEN RemoveEventListener(scrollListeners, "onScrollFallback")
                                 ELSE scrollListeners
    /\ UNCHANGED <<pc, envVars, scrollY, ioQueue, tickerVars, loadVars, formVars>>

(* ------------------------ IntersectionObserver ------------------------ *)
IoState(b) == IF b THEN "in" ELSE "out"

\* The browser's "update intersection observations" step: every observed
\* target whose isIntersecting differs from the last computed one (or that
\* was never computed) gets an entry queued.  The step comes after the
\* frame's animation frame callbacks, so none is waiting when it runs; the
\* observer is free to skip positions (it "can miss elements", line 104).
RECURSIVE ObserveTargets(_, _, _)
ObserveTargets(t, prev, q) ==
    IF t > NumTargets THEN [ioPrev |-> prev, ioQueue |-> q]
    ELSE LET cur == IsIntersecting(t, scrollY)
         IN  IF t \in observed /\ prev[t] # IoState(cur)
             THEN ObserveTargets(t + 1, [prev EXCEPT ![t] = IoState(cur)],
                                 Append(q, [target |-> t, isIntersecting |-> cur]))
             ELSE ObserveTargets(t + 1, prev, q)

IOUpdate ==
    /\ pc = "ready"
    /\ rafQueue = <<>>
    /\ LET r == ObserveTargets(1, ioPrev, ioQueue)
       IN  /\ r.ioQueue # ioQueue
           /\ Len(r.ioQueue) <= MaxQueued
           /\ ioPrev' = r.ioPrev
           /\ ioQueue' = r.ioQueue
    /\ UNCHANGED <<pc, envVars, scrollY, scrollListeners, rafQueue, visible, observed,
                   pending, fallbackTicking, revealedBy, actsOnResolved, lastRects,
                   tickerVars, loadVars, formVars>>

\* lines 87-92: entries.forEach
RECURSIVE revealObserverCallback(_, _)
revealObserverCallback(entries, st) ==
    IF entries = <<>> THEN st
    ELSE LET entry == Head(entries)
         IN  revealObserverCallback(Tail(entries),
                 IF entry.isIntersecting
                 THEN MarkVisibleAndUnobserve(st, entry.target, "observer")
                 ELSE st)

\* the observer delivers its queued entries to the callback
IONotify ==
    /\ ioQueue # <<>>
    /\ LET st0 == [visible |-> visible, observed |-> observed, ioPrev |-> ioPrev,
                   revealedBy |-> revealedBy, actsOnResolved |-> actsOnResolved]
           st == revealObserverCallback(ioQueue, st0)
       IN  /\ visible' = st.visible
           /\ observed' = st.observed
           /\ ioPrev' = st.ioPrev
           /\ revealedBy' = st.revealedBy
           /\ actsOnResolved' = st.actsOnResolved
    /\ ioQueue' = <<>>
    /\ UNCHANGED <<pc, envVars, scrollY, scrollListeners, rafQueue, pending,
                   fallbackTicking, lastRects, tickerVars, loadVars, formVars>>

(* ------------------------------ ticker -------------------------------- *)
\* opacity and translateY are kept exact: opacity in units of 1/OpacityDen,
\* translateY (scrollY * 0.18 px) in units of 1/50 px
OpacityDen == 4 * innerHeight

\* line 255: heroContent && scrollY < window.innerHeight
HeroUpdates(y) == heroContent /\ y < innerHeight

\* lines 256-258: Math.max(0, 1 - scrollY / (innerHeight * 0.8))
HeroOpacityUnclamped(y) == OpacityDen - 5 * y
HeroOpacityAt(y) == Max(0, OpacityDen - 5 * y)

\* line 257: scrollY * 0.18
HeroTranslateAt(y) == 9 * y

\* line 249: var scrollY = window.scrollY, read inside the frame callback
ReadScrollYAtSchedule(now, atSchedule) == atSchedule
ReadScrollY(now, atSchedule) == now

\* line 261: ticking = false
TickingNeverCleared == TRUE
TickingAfterFrame == FALSE

\* lines 248-262: the frame callback scheduled by onScroll
tick ==
    /\ rafQueue # <<>>
    /\ Head(rafQueue).cb = "tick"
    /\ rafQueue' = Tail(rafQueue)
    /\ LET y == ReadScrollY(scrollY, scheduledAt[1])
       IN  /\ cssScrollY' = <<y>>
           /\ IF HeroUpdates(y)
              THEN /\ heroTransform' = <<HeroTranslateAt(y)>>
                   /\ heroOpacity' = <<HeroOpacityAt(y)>>
              ELSE UNCHANGED <<heroTransform, heroOpacity>>
    /\ ticking' = TickingAfterFrame
    /\ burst' = 0
    /\ scheduledAt' = <<>>
    /\ UNCHANGED <<pc, envVars, scrollY, scrollListeners, revealVars, loadVars, formVars>>

(* ----------------------- conversational form ------------------------- *)
\* Text is a sequence of strings, typed text one character each; \o is
\* string concatenation.
\* what the visitor may have typed or chosen when a control is used
WorkValues == {"", "Design", "Video"}
PillValues == {"Referral", "Search"}
\* the three fields of the details step as the visitor left them
Filled(name, email, note) == [name |-> name, email |-> email, note |-> note]
Fillings ==
    { Filled(<<>>, <<"a", "@", "b">>, <<>>),
      Filled(<<" ">>, <<"a", "@", "b">>, <<"h", "i">>),
      Filled(<<"A", "n">>, <<" ">>, <<"h", "i">>),
      Filled(<<"A", "n">>, <<"a", ".", "b">>, <<>>),
      Filled(<<" ", "A", "n", " ">>, <<"a", "@", "b", " ">>, <<" ">>),
      Filled(<<"A", "n">>, <<"a", "@", "b">>, <<" ", "h", "i">>) }

RECURSIVE TrimStart(_)
TrimStart(s) == IF s # <<>> /\ Head(s) = " " THEN TrimStart(Tail(s)) ELSE s
RECURSIVE TrimEnd(_)
TrimEnd(s) == IF s # <<>> /\ s[Len(s)] = " " THEN TrimEnd(SubSeq(s, 1, Len(s) - 1)) ELSE s
\* String.prototype.trim
NoTrim(s) == s
Trim(s) == TrimEnd(TrimStart(s))
\* String.prototype.indexOf, zero-based, -1 when absent
IndexOf(s, c) ==
    IF \E i \in 1..Len(s) : s[i] = c
    THEN (CHOOSE i \in 1..Len(s) : s[i] = c /\ \A j \in 1..(i - 1) : s[j] # c) - 1
    ELSE 0 - 1

StartDelay == 600
StepDelay == 500
SendDelay == 400

AskWork == <<"Hey! What kind of work are you looking for?">>
AskSource == <<"Nice. How did you find me?">>
AskDetails == <<"Almost there - drop your details and I'll be in touch.">>

\* addBubble(text, type)
addBubble(chat, text, type) == Append(chat, [type |-> type, text |-> text])

\* showTyping(delay).then(continuation): one more pending timer
showTyping(timers, delay, continuation, link) ==
    Append(timers, [delay |-> delay, then |-> continuation, mailtoLink |-> link])

\* A step's controls take clicks and keys only while the step carries 'active'
\* and was not given display: none
StepInteractive(s) == activeStep = s /\ ~stepsHidden

\* lines 525-533
StartClick ==
    /\ pc = "ready"
    /\ "start" \in handlers
    /\ starts < MaxStarts
    /\ starts' = starts + 1
    /\ formActive' = TRUE
    /\ typing' = IF formDom["convoChat"]
                 THEN showTyping(typing, StartDelay, "start", <<>>)
                 ELSE typing
    /\ step' = IF step = "Idle" THEN "Start" ELSE step
    /\ lastInput' = <<"start">>
    /\ UNCHANGED <<activeStep, stepsHidden, answers, transcript, flagged, outbox, settled,
                   pageVars>>

\* line 540
AnyWorkValue(v) == FALSE
WorkMissing(v) == v = ""

\* lines 539-553
NextClick(v) ==
    /\ pc = "ready"
    /\ "next" \in handlers
    /\ StepInteractive("convoStep1")
    /\ lastInput' = <<"next", v>>
    /\ IF WorkMissing(v)
       THEN /\ flagged' = flagged \cup {"convoWorkType"}
            /\ UNCHANGED <<answers, transcript, activeStep, typing>>
       ELSE /\ answers' = [answers EXCEPT !.work = v]
            /\ transcript' = addBubble(transcript, <<v>>, "user")
            /\ activeStep' = "none"
            /\ typing' = showTyping(typing, StepDelay, "next", <<>>)
            /\ UNCHANGED flagged
    /\ UNCHANGED <<formActive, stepsHidden, outbox, step, starts, settled, pageVars>>

\* lines 558-570
PillClick(v) ==
    /\ pc = "ready"
    /\ "pill" \in handlers
    /\ StepInteractive("convoStep2")
    /\ lastInput' = <<"pill", v>>
    /\ answers' = [answers EXCEPT !.source = v]
    /\ transcript' = addBubble(transcript, <<v>>, "user")
    /\ activeStep' = "none"
    /\ typing' = showTyping(typing, StepDelay, "pill", <<>>)
    /\ UNCHANGED <<formActive, stepsHidden, flagged, outbox, step, starts, settled, pageVars>>

\* lines 584-585, on the trimmed values
NameMissing(name) == name = <<>>
EmailInvalidWithoutAtTest(email) == email = <<>>
EmailInvalid(email) == email = <<>> \/ IndexOf(email, "@") = 0 - 1

\* lines 592-603: the link's subject and body before URI encoding, the body
\* as its lines
NoteLineAlways(a) == <<<<"Note: ">> \o a.note>>
NoteLine(a) == IF a.note # <<>> THEN <<<<"Note: ">> \o a.note>> ELSE <<>>
ComposeMailto(a) ==
    [to |-> "azlanallahwala@gmail.com",
     subject |-> <<"New inquiry from ">> \o a.name \o <<" - ", a.work>>,
     body |-> <<<<"Hi Azlan,">>, <<>>,
                <<"Name: ">> \o a.name,
                <<"Email: ">> \o a.email,
                <<"Looking for: ", a.work>>,
                <<"Found you via: ", a.source>>>>
              \o NoteLine(a)
              \o <<<<>>, <<"Sent from your portfolio site.">>>>]

\* lines 574-625 up to the typing delay: the send button's click listener
sendBtnClick(rawName, rawEmail, rawNote) ==
    LET name == Trim(rawName)
        email == Trim(rawEmail)
        note == Trim(rawNote)
        committed == [answers EXCEPT !.name = name, !.email = email, !.note = note]
    IN  IF NameMissing(name)
        THEN /\ flagged' = flagged \cup {"convoName"}
             /\ UNCHANGED <<answers, activeStep, transcript, typing>>
        ELSE IF EmailInvalid(email)
        THEN /\ flagged' = flagged \cup {"convoEmail"}
             /\ UNCHANGED <<answers, activeStep, transcript, typing>>
        ELSE /\ answers' = committed
             /\ activeStep' = "none"
             /\ transcript' = addBubble(transcript, name \o <<" - ">> \o email, "user")
             /\ typing' = showTyping(typing, SendDelay, "send", <<ComposeMailto(committed)>>)
             /\ UNCHANGED flagged

SendClick(rawName, rawEmail, rawNote) ==
    /\ pc = "ready"
    /\ "send" \in handlers
    /\ StepInteractive("convoStep3")
    /\ lastInput' = <<"send", rawName, rawEmail, rawNote>>
    /\ sendBtnClick(rawName, rawEmail, rawNote)
    /\ UNCHANGED <<formActive, stepsHidden, outbox, step, starts, settled, pageVars>>

\* lines 628-636: Enter without Shift in one of the three fields
EnterKey(rawName, rawEmail, rawNote) ==
    /\ pc = "ready"
    /\ "enter" \in handlers
    /\ StepInteractive("convoStep3")
    /\ lastInput' = <<"enter", rawName, rawEmail, rawNote>>
    /\ sendBtnClick(rawName, rawEmail, rawNote)
    /\ UNCHANGED <<formActive, stepsHidden, outbox, step, starts, settled, pageVars>>

\* Timers expire in the order of their deadlines: one registered earlier with
\* a delay that is not longer expires first
MayExpire(i) == \A j \in 1..(i - 1) : typing[j].delay > typing[i].delay

Remove(q, i) == SubSeq(q, 1, i - 1) \o SubSeq(q, i + 1, Len(q))

\* lines 509-512 followed by the continuation passed to then()
TypingDone(i) ==
    /\ i \in 1..Len(typing)
    /\ MayExpire(i)
    /\ typing' = Remove(typing, i)
    /\ lastInput' = <<"timer", typing[i].then>>
    /\ IF typing[i].then = "send"
       THEN \* lines 610-623
            /\ stepsHidden' = TRUE
            /\ outbox' = Append(outbox, typing[i].mailtoLink[1])
            /\ step' = "Success"
            /\ settled' = (settled \/ Len(typing) = 1)
            /\ UNCHANGED <<transcript, activeStep>>
       ELSE /\ transcript' =
                  addBubble(transcript,
                            CASE typing[i].then = "start" -> AskWork
                              [] typing[i].then = "next" -> AskSource
                              [] typing[i].then = "pill" -> AskDetails,
                            "bot")
            /\ activeStep' = CASE typing[i].then = "start" -> "convoStep1"
                                [] typing[i].then = "next" -> "convoStep2"
                                [] typing[i].then = "pill" -> "convoStep3"
            /\ step' = CASE typing[i].then = "start" -> "WorkType"
                          [] typing[i].then = "next" -> "Source"
                          [] typing[i].then = "pill" -> "Details"
            /\ UNCHANGED <<stepsHidden, outbox, settled>>
    /\ UNCHANGED <<formActive, answers, flagged, starts, pageVars>>

(* --------------------------- specification ---------------------------- *)
Next ==
    \/ init
    \/ \E y \in ScrollPositions : Scroll(y)
    \/ checkFallback
    \/ IOUpdate
    \/ IONotify
    \/ tick

Spec == Init /\ [][Next]_vars

\* Pages with at most one .reveal element, while the observer stays silent:
\* the ticker and the fallback share the frame-callback queue, the observer
\* touches neither.  Frame callbacks that were requested are eventually run.
FrameNext ==
    \/ init
    \/ \E y \in ScrollPositions : Scroll(y)
    \/ checkFallback
    \/ tick

FrameInit == Init /\ Cardinality(revealElements) <= 1

FrameFairSpec ==
    FrameInit /\ [][FrameNext]_vars /\ WF_vars(checkFallback) /\ WF_vars(tick)

\* The form on a page without reveal elements or hero panel, whatever subset
\* of the form's elements the page carries.
FormInit ==
    /\ MotionInit
    /\ prefersReducedMotion /\ hasObserver /\ revealElements = {} /\ ~heroContent
    /\ scrollY = 0
    /\ formDom \in [FormElements -> BOOLEAN]
    /\ FormDormant

\* page load, then what a visitor and the timers can do to the form
FormNext ==
    \/ init
    \/ StartClick
    \/ \E v \in WorkValues : NextClick(v)
    \/ \E v \in PillValues : PillClick(v)
    \/ \E f \in Fillings : SendClick(f.name, f.email, f.note)
    \/ \E f \in Fillings : EnterKey(f.name, f.email, f.note)
    \/ \E i \in 1..Len(typing) : TypingDone(i)

FormSpec == FormInit /\ [][FormNext]_vars

\* A page with one reveal element, a hero panel and the whole form, in normal
\* mode: scrolling, frame callbacks and observer notifications interleaved
\* with a visitor who opens the form once.
PageInit ==
    /\ Init
    /\ ~prefersReducedMotion /\ hasObserver /\ revealElements = {1} /\ heroContent
    /\ scrollY = 0

\* what this visitor enters: nothing or one value at each step
PageFillings ==
    { Filled(<<>>, <<"a", "@", "b">>, <<>>),
      Filled(<<"A", "n">>, <<"a", "@", "b">>, <<" ", "h", "i">>) }

PageNext ==
    \/ Next
    \/ starts = 0 /\ StartClick
    \/ \E v \in {"", "Design"} : NextClick(v)
    \/ PillClick("Referral")
    \/ \E f \in PageFillings : SendClick(f.name, f.email, f.note)
    \/ \E f \in PageFillings : EnterKey(f.name, f.email, f.note)
    \/ \E i \in 1..Len(typing) : TypingDone(i)

PageSpec == PageInit /\ [][PageNext]_vars

\* Page load alone, for every page content
LoadInit == MotionInit /\ formDom \in [FormElements -> BOOLEAN] /\ FormDormant
LoadSpec == LoadInit /\ [][init]_vars

(* ------------------------------ claims -------------------------------- *)
\* C1: in normal mode, under every interleaving of observer notifications,
\* scroll events and frame callbacks, each target's visible flag changes from
\* false to true at most once and never goes back to false; when both
\* detection paths resolve the same target the flag still changes only once.
C1_ExactlyOnceReveal ==
    /\ [](NormalMode => \A t \in Targets : Len(revealedBy[t]) <= 1)
    /\ [][NormalMode => \A t \in Targets : visible[t] => visible'[t]]_vars

\* the fallback resolved a target and a queued observer notification then
\* resolved the same target again
C1_Witness ==
    \E t \in revealElements :
        /\ NormalMode
        /\ revealedBy[t] = <<"fallback">>
        /\ <<"observer", t>> \in actsOnResolved
        /\ visible[t]

\* C2 (as claimed): once a target is visible neither detection path marks it
\* visible or unobserves it again; both paths test 'already visible' first.
C2_NoActOnResolved == actsOnResolved = {}

\* the fallback is running: normal mode, a page with .reveal elements, init() done
FallbackStarted == pc = "ready" /\ NormalMode /\ revealElements # {}
ChecksQueued == Queued(rafQueue, "checkFallback")
StartupCheckQueued == \E i \in 1..Len(rafQueue) : rafQueue[i].by = "init"
FallbackListening == "onScrollFallback" \in scrollListeners

C4_OneCheckQueued == ChecksQueued <= 1

OverlapsViewport(t, y) == TargetTop(t) - y < innerHeight /\ TargetBottom(t) - y > 0

\* C6: in normal mode, at startup and after every scroll event, a target
\* that is not visible while its box overlaps the viewport has a fallback
\* check queued, and every check that runs leaves every target overlapping
\* the viewport visible, whether or not the observer has notified anything.
C6_VisibleByNextCheck ==
    /\ [](FallbackStarted =>
            \A t \in revealElements :
                ~visible[t] /\ OverlapsViewport(t, scrollY) => ChecksQueued >= 1)
    /\ [][FallbackStarted /\ checkFallback
            => \A t \in revealElements : OverlapsViewport(t, scrollY) => visible'[t]]_vars

\* target 2 was made visible by a fallback check while the observer has
\* nothing computed and nothing queued
C6_Witness ==
    /\ FallbackStarted
    /\ revealElements = Targets
    /\ revealedBy[2] = <<"fallback">>
    /\ ioPrev = [t \in Targets |-> "none"]
    /\ ioQueue = <<>>
    /\ OverlapsViewport(2, scrollY)

\* C7: with reduced motion every .reveal element is visible once init() has
\* run and no scroll listener or frame callback of the reveal engine or the
\* ticker ever exists; without IntersectionObserver (reduced motion off) the
\* reveal engine marks everything visible and attaches nothing.
C7_DegradedModeTotality ==
    /\ pc = "ready" /\ prefersReducedMotion
         => AllVisible /\ scrollListeners = {} /\ rafQueue = <<>>
    /\ pc = "ready" /\ ~hasObserver /\ ~prefersReducedMotion
         => AllVisible /\ ~FallbackListening /\ ChecksQueued = 0

\* reduced motion on a page with an observer, .reveal elements and a hero,
\* after init()
C7_Witness ==
    /\ pc = "ready"
    /\ prefersReducedMotion
    /\ hasObserver
    /\ heroContent
    /\ revealElements = Targets
    /\ \A t \in Targets : revealedBy[t] = <<"init">>

\* C8: N >= 1 scroll events between two ticker frame callbacks leave exactly
\* one ticker callback queued, and when it runs it publishes the position of
\* the last event (window.scrollY then), not the one at scheduling time.
C8_FrameCoalescing ==
    /\ [](Queued(rafQueue, "tick") = IF burst >= 1 THEN 1 ELSE 0)
    /\ [][tick => cssScrollY' = <<scrollY>> /\ burst' = 0]_vars

\* two scroll events to different positions are waiting for one callback
C8_Witness ==
    /\ burst >= 2
    /\ Queued(rafQueue, "tick") = 1
    /\ scheduledAt # <<scrollY>>

\* C9: whenever the ticker has received a scroll event, its frame callback
\* eventually runs and publishes the current position; while no event is
\* outstanding the published offset is the current position.
C9_FinalStatePublished ==
    /\ []("onScroll" \in scrollListeners /\ burst = 0 /\ cssScrollY # <<>>
            => cssScrollY = <<scrollY>>)
    /\ (burst >= 1) ~> (burst = 0 /\ cssScrollY = <<scrollY>>)

\* scroll events were absorbed: nothing is outstanding and the published
\* offset is the current position
C9_Witness ==
    /\ "onScroll" \in scrollListeners
    /\ burst = 0
    /\ ~ticking
    /\ rafQueue = <<>>
    /\ cssScrollY = <<scrollY>>

\* C10 (as claimed): with a hero, the published opacity is within [0, 1], is
\* 1 at offset 0 and is 0 after any update whose offset is >= 0.8 * innerHeight,
\* whatever the offset before it.
C10_OpacityFollowsOffset ==
    heroContent /\ cssScrollY # <<>> /\ heroOpacity # <<>> =>
        /\ heroOpacity[1] \in 0..OpacityDen
        /\ (cssScrollY[1] = 0 => heroOpacity[1] = OpacityDen)
        /\ (5 * cssScrollY[1] >= 4 * innerHeight => heroOpacity[1] = 0)

\* C10 (amended): an update whose offset is below innerHeight publishes an
\* opacity within [0, 1] that is 1 at offset 0, 0 from 0.8 * innerHeight on
\* and not larger than the one published for a smaller offset; an update
\* whose offset is innerHeight or more leaves the hero opacity as it was.
C10_OpacityBelowOneViewport ==
    /\ [](heroContent /\ heroOpacity # <<>> => heroOpacity[1] \in 0..OpacityDen)
    /\ [](~heroContent => heroOpacity = <<>>)
    /\ [][tick /\ heroContent /\ scrollY < innerHeight
            => /\ heroOpacity' # <<>>
               /\ (scrollY = 0 => heroOpacity'[1] = OpacityDen)
               /\ (5 * scrollY >= 4 * innerHeight => heroOpacity'[1] = 0)
               /\ (/\ cssScrollY # <<>>
                   /\ cssScrollY[1] < innerHeight
                   /\ cssScrollY[1] <= scrollY
                   => heroOpacity'[1] <= heroOpacity[1])]_vars
    /\ [][tick /\ scrollY >= innerHeight => heroOpacity' = heroOpacity]_vars

\* the page jumped in one frame from below 0.8 * innerHeight to innerHeight
\* or beyond: the published offset is past the fade, the opacity is not 0
C10_Witness ==
    /\ heroContent
    /\ cssScrollY # <<>>
    /\ cssScrollY[1] >= innerHeight
    /\ heroOpacity # <<>>
    /\ heroOpacity[1] > 0

(* ----------------- claims on the conversational form ------------------ *)
\* text that is empty or consists of blanks only
Blank(s) == \A i \in 1..Len(s) : s[i] = " "
Has(s, c) == \E i \in 1..Len(s) : s[i] = c
AtDetails == step = "Details" \/ activeStep = "convoStep3"
AtSuccess == step = "Success" \/ outbox # <<>>

\* C11: whatever the visitor does (start, Next, a source pill, Send, Enter),
\* the details step is never reached while answers.work or answers.source is
\* empty, and the success state is never reached unless the name is
\* non-empty after trimming and the email contains '@'.
C11_GuardedProgress ==
    /\ AtDetails => answers.work # "" /\ answers.source # ""
    /\ AtSuccess => ~Blank(answers.name) /\ Has(answers.email, "@")

\* a session that got to the success state
C11_Witness ==
    /\ step = "Success"
    /\ answers.work # "" /\ answers.source # ""
    /\ ~Blank(answers.name) /\ Has(answers.email, "@")

\* C12: the session step only moves forward, one step at a time, through
\* Start, WorkType, Source, Details, Success; nothing the visitor does,
\* pressing the start button again included, brings back an earlier step or
\* skips one.
StepRank(s) ==
    CASE s = "Idle" -> 0 [] s = "Start" -> 1 [] s = "WorkType" -> 2
      [] s = "Source" -> 3 [] s = "Details" -> 4 [] s = "Success" -> 5
C12_ForwardOnly ==
    [][StepRank(step') \in {StepRank(step), StepRank(step) + 1}]_vars

\* the send button's listener ran on these raw field values (by click or Enter)
SendHandled(in) == in # <<>> /\ in[1] \in {"send", "enter"}
\* the values the claim says are refused
Refusable(rawName, rawEmail) ==
    Blank(rawName) \/ Blank(rawEmail) \/ ~Has(rawEmail, "@")

\* C13: Send (or Enter) at the details step with a name that is empty or
\* blank, or an email that is empty or has no '@', commits nothing: the step
\* stays, no turn is appended, answers are unchanged, no typing delay and no
\* payload come of it, however often it is repeated.
C13_RefusedSendCommitsNothing ==
    [][SendHandled(lastInput') /\ Refusable(lastInput'[2], lastInput'[3])
       => UNCHANGED <<activeStep, step, transcript, answers, typing, outbox>>]_vars

\* Send was refused for the empty name next to the email a@b
C13_Witness ==
    /\ lastInput = <<"send", <<>>, <<"a", "@", "b">>, <<>>>>
    /\ activeStep = "convoStep3"
    /\ "convoName" \in flagged
    /\ answers.name = <<>> /\ answers.email = <<>>
    /\ outbox = <<>>

\* C14: Next at the work-type step with nothing selected is refused: the step
\* stays, answers.work is unchanged, no user turn is appended and no typing
\* delay starts.
C14_RefusedNextCommitsNothing ==
    [][lastInput' = <<"next", "">>
       => UNCHANGED <<activeStep, step, answers, transcript, typing>>]_vars

C14_Witness ==
    /\ lastInput = <<"next", "">>
    /\ activeStep = "convoStep1"
    /\ "convoWorkType" \in flagged
    /\ answers.work = ""
    /\ typing = <<>>

\* C15: the success state is terminal: once it is entered nothing the
\* visitor does (start, Next, a source pill, Send, Enter) changes the
\* transcript, the answers or the active step, and no further payload is
\* emitted.
C15_SuccessIsTerminal ==
    [][settled => UNCHANGED <<transcript, answers, activeStep, outbox>>]_vars

\* the combined name/email user turns of a transcript
DetailTurns(chat) == SelectSeq(chat, LAMBDA b : b.type = "user" /\ Has(b.text, " - "))

\* C16: a session emits one payload, on reaching the success state: nothing
\* the visitor does, repeated Send clicks or Enter presses during the typing
\* delay after a valid Send included, emits the payload twice or appends the
\* combined name/email user turn twice.
C16_OnePayload ==
    /\ Len(outbox) <= 1
    /\ Len(DetailTurns(transcript)) <= 1

Turn(type, text) == [type |-> type, text |-> text]
InBody(link, line) == \E i \in 1..Len(link.body) : link.body[i] = line
HasNoteLine(link) == \E i \in 1..Len(link.body) : Has(link.body[i], "Note: ")

\* C17: for start, a work type, a source, then name, email and note sent
\* once, the transcript is bot and user turns strictly alternating (question,
\* work, question, source, question, combined name and email), and the
\* payload body has the line "Looking for: <work>", the line
\* "Found you via: <source>", and a "Note:" line exactly when the note is
\* not blank.
C17_LinearSession ==
    starts = 1 =>
        /\ \A i \in 1..Len(transcript) :
               transcript[i].type = IF i % 2 = 1 THEN "bot" ELSE "user"
        /\ step = "Success" =>
               /\ transcript = <<Turn("bot", AskWork),
                                 Turn("user", <<answers.work>>),
                                 Turn("bot", AskSource),
                                 Turn("user", <<answers.source>>),
                                 Turn("bot", AskDetails),
                                 Turn("user", answers.name \o <<" - ">> \o answers.email)>>
               /\ Len(outbox) = 1
               /\ InBody(outbox[1], <<"Looking for: ", answers.work>>)
               /\ InBody(outbox[1], <<"Found you via: ", answers.source>>)
               /\ HasNoteLine(outbox[1]) <=> ~Blank(answers.note)
               /\ ~Blank(answers.note) => InBody(outbox[1], <<"Note: ">> \o answers.note)

\* a single-start session that sent a note, and got to the success state
C17_Witness ==
    /\ starts = 1
    /\ step = "Success"
    /\ Len(transcript) = 6
    /\ answers.note = <<"h", "i">>
    /\ HasNoteLine(outbox[1])

\* C18: when an element a component expects is missing (no reveal target, no
\* hero panel, no start button or dialog shell, or a dialog shell without
\* its transcript container, source step or send button), that component's
\* initialisation ends without effect and without an error, and the
\* initialisation steps after it still run.
C18_MissingElementsAreSkipped ==
    pc = "ready" => initError = "none" /\ navLinkInit

\* C19: the transcript only grows, and no two bot turns are ever adjacent,
\* however fast and however often the visitor acts (clicking start more than
\* once included).
C19_NoAdjacentBotTurns ==
    \A i \in 1..(Len(transcript) - 1) :
        ~(transcript[i].type = "bot" /\ transcript[i + 1].type = "bot")

\* C20: at most one typing delay with its continuation is pending at any
\* time, whatever the visitor clicks.
C20_OneTypingChain == Len(typing) <= 1

(* ------------------- claims across the components --------------------- *)
\* the conversation session: answers, transcript, shown step, payloads
session == <<formActive, activeStep, stepsHidden, answers, transcript, typing, outbox, step>>
\* a scroll event, a frame callback or an observer step took place
MotionEvent ==
    <<scrollY, rafQueue, ioQueue, ioPrev, visible, observed, pending, fallbackTicking,
      ticking, cssScrollY, heroTransform, heroOpacity>>' #
    <<scrollY, rafQueue, ioQueue, ioPrev, visible, observed, pending, fallbackTicking,
      ticking, cssScrollY, heroTransform, heroOpacity>>

\* C21: until the start button is clicked for the first time nothing the
\* visitor does (Next, a pill, Send, Enter) changes the answers, appends to the
\* transcript, shows a step or emits a payload; and no scroll event, frame
\* callback or observer notification ever changes the session.
C21_DormantUntilStart ==
    [][/\ starts' = 0 => UNCHANGED session /\ activeStep = "none" /\ transcript = <<>>
       /\ MotionEvent => UNCHANGED session]_vars

\* the form is open at the details step while the page was scrolled and the
\* ticker and the reveal engine did their work
C21_Witness ==
    /\ starts = 1
    /\ activeStep = "convoStep3"
    /\ scrollY # 0
    /\ cssScrollY = <<scrollY>>
    /\ visible[1]

\* C22: the ticker's in-flight flag is TRUE exactly when one ticker frame
\* callback is pending: never TRUE with none pending, never FALSE with one
\* pending, and never more than one pending.
C22_FlagMatchesPendingFrame ==
    /\ Queued(rafQueue, "tick") <= 1
    /\ ticking <=> Queued(rafQueue, "tick") = 1

\* a scroll event set the flag and its frame callback is waiting
C22_Witness ==
    /\ ticking
    /\ Queued(rafQueue, "tick") = 1
    /\ burst = MaxBurst

InPending(t) == \E i \in 1..Len(pending) : pending[i] = t

\* C23: in normal mode every target that is not yet visible is still in the
\* fallback's pending array and still observed; so once the fallback's
\* scroll listener is removed every target is visible.
C23_UnresolvedStayTracked ==
    pc = "ready" /\ NormalMode =>
        /\ \A t \in revealElements : ~visible[t] => InPending(t) /\ t \in observed
        /\ ~FallbackListening => AllVisible

\* the fallback tore itself down on a page with every target resolved, one
\* by the observer and one by the fallback
C23_Witness ==
    /\ pc = "ready" /\ NormalMode
    /\ revealElements = Targets
    /\ ~FallbackListening
    /\ AllVisible
    /\ \E t \in Targets : revealedBy[t] = <<"observer">>
    /\ \E t \in Targets : revealedBy[t] = <<"fallback">>

\* C24: the ticker's scroll listener is attached exactly when reduced motion
\* is off, with or without IntersectionObserver and with or without a hero
\* panel; without a hero panel a coalesced update publishes the scroll
\* offset only, never a hero transform or opacity.
C24_TickerAttachment ==
    pc = "ready" =>
        /\ "onScroll" \in scrollListeners <=> ~prefersReducedMotion
        /\ ~heroContent => heroTransform = <<>> /\ heroOpacity = <<>>

\* no observer and no hero panel, yet the ticker published an offset
C24_Witness ==
    /\ pc = "ready"
    /\ ~hasObserver /\ ~heroContent /\ ~prefersReducedMotion
    /\ "onScroll" \in scrollListeners
    /\ cssScrollY # <<>>
    /\ heroTransform = <<>> /\ heroOpacity = <<>>
====
